---- MODULE Spec2Model ----
(***************************************************************************)
(* Model of the guided mediation flow of src/diff_demo.py                  *)
(* (ConflictMediatorApp): the Streamlit session state, the stage handlers  *)
(* that run() dispatches on current_stage, and the text helpers they use.  *)
(*                                                                         *)
(* A text is a sequence of one-character strings, so that strip(), split(),*)
(* lower() and the substring test of contains_illegal_content are computed *)
(* as Python computes them.                                                *)
(***************************************************************************)
EXTENDS Integers, Sequences, FiniteSets, TLC

(***************************************************************************)
(* Bounds of the model.                                                    *)
(***************************************************************************)
\* how far the wall clock read by datetime.now() advances
MaxTime == 2
\* how many cases (uuid4 draws) one behaviour creates
MaxCases == 2

(***************************************************************************)
(* Text literals of the source and the texts typed into the forms.         *)
(***************************************************************************)
\* "violence"
KW_violence ==
    <<"v","i","o","l","e","n","c","e">>

\* "assault"
KW_assault ==
    <<"a","s","s","a","u","l","t">>

\* "theft"
KW_theft ==
    <<"t","h","e","f","t">>

\* "fraud"
KW_fraud ==
    <<"f","r","a","u","d">>

\* "harassment"
KW_harassment ==
    <<"h","a","r","a","s","s","m","e","n","t">>

\* "abuse"
KW_abuse ==
    <<"a","b","u","s","e">>

\* "threat"
KW_threat ==
    <<"t","h","r","e","a","t">>

\* "danger"
KW_danger ==
    <<"d","a","n","g","e","r">>

\* "weapon"
KW_weapon ==
    <<"w","e","a","p","o","n">>

\* "drugs"
KW_drugs ==
    <<"d","r","u","g","s">>

\* "I did help with chores on "
FACTS_PREFIX ==
    <<"I"," ","d","i","d"," ","h","e","l","p"," ","w","i","t","h"," ","c","h","o","r","e",
    "s"," ","o","n"," ">>

\* " and "
FACTS_AND ==
    <<" ","a","n","d"," ">>

\* "I've been dealing with work stress, which affected my availability"
FACTS_2 ==
    <<"I","'","v","e"," ","b","e","e","n"," ","d","e","a","l","i","n","g"," ","w","i","t",
    "h"," ","w","o","r","k"," ","s","t","r","e","s","s",","," ","w","h","i","c","h"," ","a",
    "f","f","e","c","t","e","d"," ","m","y"," ","a","v","a","i","l","a","b","i","l","i","t",
    "y">>

\* "I thought we had an informal agreement about rotating responsibilities"
FACTS_3 ==
    <<"I"," ","t","h","o","u","g","h","t"," ","w","e"," ","h","a","d"," ","a","n"," ","i",
    "n","f","o","r","m","a","l"," ","a","g","r","e","e","m","e","n","t"," ","a","b","o","u",
    "t"," ","r","o","t","a","t","i","n","g"," ","r","e","s","p","o","n","s","i","b","i","l",
    "i","t","i","e","s">>

\* "I noticed some of the tasks weren't clearly defined or assigned"
FACTS_4 ==
    <<"I"," ","n","o","t","i","c","e","d"," ","s","o","m","e"," ","o","f"," ","t","h","e",
    " ","t","a","s","k","s"," ","w","e","r","e","n","'","t"," ","c","l","e","a","r","l","y",
    " ","d","e","f","i","n","e","d"," ","o","r"," ","a","s","s","i","g","n","e","d">>

\* "I was under the impression you preferred handling certain tasks yourself"
FACTS_5 ==
    <<"I"," ","w","a","s"," ","u","n","d","e","r"," ","t","h","e"," ","i","m","p","r","e",
    "s","s","i","o","n"," ","y","o","u"," ","p","r","e","f","e","r","r","e","d"," ","h","a",
    "n","d","l","i","n","g"," ","c","e","r","t","a","i","n"," ","t","a","s","k","s"," ","y",
    "o","u","r","s","e","l","f">>

\* "I've been contributing in ways that might not be immediately visible"
FACTS_6 ==
    <<"I","'","v","e"," ","b","e","e","n"," ","c","o","n","t","r","i","b","u","t","i","n",
    "g"," ","i","n"," ","w","a","y","s"," ","t","h","a","t"," ","m","i","g","h","t"," ","n",
    "o","t"," ","b","e"," ","i","m","m","e","d","i","a","t","e","l","y"," ","v","i","s","i",
    "b","l","e">>

\* "I feel overwhelmed with my current workload"
MOTIVE_1 ==
    <<"I"," ","f","e","e","l"," ","o","v","e","r","w","h","e","l","m","e","d"," ","w","i",
    "t","h"," ","m","y"," ","c","u","r","r","e","n","t"," ","w","o","r","k","l","o","a",
    "d">>

\* "I didn't realize the impact my actions had on you"
MOTIVE_2 ==
    <<"I"," ","d","i","d","n","'","t"," ","r","e","a","l","i","z","e"," ","t","h","e"," ",
    "i","m","p","a","c","t"," ","m","y"," ","a","c","t","i","o","n","s"," ","h","a","d"," ",
    "o","n"," ","y","o","u">>

\* "I thought you preferred handling certain tasks yourself"
MOTIVE_3 ==
    <<"I"," ","t","h","o","u","g","h","t"," ","y","o","u"," ","p","r","e","f","e","r","r",
    "e","d"," ","h","a","n","d","l","i","n","g"," ","c","e","r","t","a","i","n"," ","t","a",
    "s","k","s"," ","y","o","u","r","s","e","l","f">>

\* "I was waiting for a clear discussion about expectations"
MOTIVE_4 ==
    <<"I"," ","w","a","s"," ","w","a","i","t","i","n","g"," ","f","o","r"," ","a"," ","c",
    "l","e","a","r"," ","d","i","s","c","u","s","s","i","o","n"," ","a","b","o","u","t"," ",
    "e","x","p","e","c","t","a","t","i","o","n","s">>

\* "I've been trying to avoid conflict by not bringing it up"
MOTIVE_5 ==
    <<"I","'","v","e"," ","b","e","e","n"," ","t","r","y","i","n","g"," ","t","o"," ","a",
    "v","o","i","d"," ","c","o","n","f","l","i","c","t"," ","b","y"," ","n","o","t"," ","b",
    "r","i","n","g","i","n","g"," ","i","t"," ","u","p">>

\* "I assumed we were managing things informally and it was working"
MOTIVE_6 ==
    <<"I"," ","a","s","s","u","m","e","d"," ","w","e"," ","w","e","r","e"," ","m","a","n",
    "a","g","i","n","g"," ","t","h","i","n","g","s"," ","i","n","f","o","r","m","a","l","l",
    "y"," ","a","n","d"," ","i","t"," ","w","a","s"," ","w","o","r","k","i","n","g">>

\* "I suggested creating a chore chart last month"
ATTEMPTS_1 ==
    <<"I"," ","s","u","g","g","e","s","t","e","d"," ","c","r","e","a","t","i","n","g"," ",
    "a"," ","c","h","o","r","e"," ","c","h","a","r","t"," ","l","a","s","t"," ","m","o","n",
    "t","h">>

\* "I offered to handle cooking if you'd manage cleaning"
ATTEMPTS_2 ==
    <<"I"," ","o","f","f","e","r","e","d"," ","t","o"," ","h","a","n","d","l","e"," ","c",
    "o","o","k","i","n","g"," ","i","f"," ","y","o","u","'","d"," ","m","a","n","a","g","e",
    " ","c","l","e","a","n","i","n","g">>

\* "I tried talking about it but didn't want to cause conflict"
ATTEMPTS_3 ==
    <<"I"," ","t","r","i","e","d"," ","t","a","l","k","i","n","g"," ","a","b","o","u","t",
    " ","i","t"," ","b","u","t"," ","d","i","d","n","'","t"," ","w","a","n","t"," ","t","o",
    " ","c","a","u","s","e"," ","c","o","n","f","l","i","c","t">>

\* "I assumed we were managing things informally"
ATTEMPTS_4 ==
    <<"I"," ","a","s","s","u","m","e","d"," ","w","e"," ","w","e","r","e"," ","m","a","n",
    "a","g","i","n","g"," ","t","h","i","n","g","s"," ","i","n","f","o","r","m","a","l","l",
    "y">>

\* "I proposed a different system but it wasn't well-received"
ATTEMPTS_5 ==
    <<"I"," ","p","r","o","p","o","s","e","d"," ","a"," ","d","i","f","f","e","r","e","n",
    "t"," ","s","y","s","t","e","m"," ","b","u","t"," ","i","t"," ","w","a","s","n","'","t",
    " ","w","e","l","l","-","r","e","c","e","i","v","e","d">>

\* "I've been doing tasks when I have time, just not on a set schedule"
ATTEMPTS_6 ==
    <<"I","'","v","e"," ","b","e","e","n"," ","d","o","i","n","g"," ","t","a","s","k","s",
    " ","w","h","e","n"," ","I"," ","h","a","v","e"," ","t","i","m","e",","," ","j","u","s",
    "t"," ","n","o","t"," ","o","n"," ","a"," ","s","e","t"," ","s","c","h","e","d","u","l",
    "e">>

\* "Create a clear, shared responsibility system that works for both of us with flexibility for busy periods"
IDEAL_FIX ==
    <<"C","r","e","a","t","e"," ","a"," ","c","l","e","a","r",","," ","s","h","a","r","e",
    "d"," ","r","e","s","p","o","n","s","i","b","i","l","i","t","y"," ","s","y","s","t","e",
    "m"," ","t","h","a","t"," ","w","o","r","k","s"," ","f","o","r"," ","b","o","t","h"," ",
    "o","f"," ","u","s"," ","w","i","t","h"," ","f","l","e","x","i","b","i","l","i","t","y",
    " ","f","o","r"," ","b","u","s","y"," ","p","e","r","i","o","d","s">>

\* "I think we might have different expectations about what 'fair' means and when to bring up concerns"
MISUNDERSTANDINGS ==
    <<"I"," ","t","h","i","n","k"," ","w","e"," ","m","i","g","h","t"," ","h","a","v","e",
    " ","d","i","f","f","e","r","e","n","t"," ","e","x","p","e","c","t","a","t","i","o","n",
    "s"," ","a","b","o","u","t"," ","w","h","a","t"," ","'","f","a","i","r","'"," ","m","e",
    "a","n","s"," ","a","n","d"," ","w","h","e","n"," ","t","o"," ","b","r","i","n","g"," ",
    "u","p"," ","c","o","n","c","e","r","n","s">>

\* "This situation has been causing me stress at work too, affecting my focus and energy levels"
IMPACT ==
    <<"T","h","i","s"," ","s","i","t","u","a","t","i","o","n"," ","h","a","s"," ","b","e",
    "e","n"," ","c","a","u","s","i","n","g"," ","m","e"," ","s","t","r","e","s","s"," ","a",
    "t"," ","w","o","r","k"," ","t","o","o",","," ","a","f","f","e","c","t","i","n","g"," ",
    "m","y"," ","f","o","c","u","s"," ","a","n","d"," ","e","n","e","r","g","y"," ","l","e",
    "v","e","l","s">>

\* ""
IN_Empty ==
    << >>

\* "  "
IN_Blank ==
    <<" "," ">>

\* " My roommate ignores shared chores "
IN_Chores ==
    <<" ","M","y"," ","r","o","o","m","m","a","t","e"," ","i","g","n","o","r","e","s"," ",
    "s","h","a","r","e","d"," ","c","h","o","r","e","s"," ">>

\* "I want to hurt him"
IN_Hurt ==
    <<"I"," ","w","a","n","t"," ","t","o"," ","h","u","r","t"," ","h","i","m">>

\* "He committed FRAUD"
IN_Fraud ==
    <<"H","e"," ","c","o","m","m","i","t","t","e","d"," ","F","R","A","U","D">>

\* "Threatening notes"
IN_Threatening ==
    <<"T","h","r","e","a","t","e","n","i","n","g"," ","n","o","t","e","s">>

\* "Bob"
IN_Bob ==
    <<"B","o","b">>

\* "peace"
IN_Peace ==
    <<"p","e","a","c","e">>

\* "Mr Danger"
IN_MrDanger ==
    <<"M","r"," ","D","a","n","g","e","r">>

\* "no abuse"
IN_NoAbuse ==
    <<"n","o"," ","a","b","u","s","e">>

\* "Alex"
IN_FactsOne ==
    <<"A","l","e","x">>

\* "Alex skipped chores"
IN_FactsThree ==
    <<"A","l","e","x"," ","s","k","i","p","p","e","d"," ","c","h","o","r","e","s">>

\* " Alex skipped chores on Monday and Friday "
IN_FactsSeven ==
    <<" ","A","l","e","x"," ","s","k","i","p","p","e","d"," ","c","h","o","r","e","s"," ",
    "o","n"," ","M","o","n","d","a","y"," ","a","n","d"," ","F","r","i","d","a","y"," ">>

\* "He is lazy"
IN_Lazy ==
    <<"H","e"," ","i","s"," ","l","a","z","y">>

\* "He is busy "
IN_Busy ==
    <<"H","e"," ","i","s"," ","b","u","s","y"," ">>

\* "I talked to him"
IN_Talked ==
    <<"I"," ","t","a","l","k","e","d"," ","t","o"," ","h","i","m">>

\* "I did chores on Monday"
IN_PPFacts ==
    <<"I"," ","d","i","d"," ","c","h","o","r","e","s"," ","o","n"," ","M","o","n","d","a",
    "y">>

\* "work stress"
IN_PPMotive ==
    <<"w","o","r","k"," ","s","t","r","e","s","s">>

\* "made a chart"
IN_PPAttempts ==
    <<"m","a","d","e"," ","a"," ","c","h","a","r","t">>

\* " a rota"
IN_PPFix ==
    <<" ","a"," ","r","o","t","a">>

\* "what fair means"
IN_PPMisunderstanding ==
    <<"w","h","a","t"," ","f","a","i","r"," ","m","e","a","n","s">>

\* "tired"
IN_PPImpact ==
    <<"t","i","r","e","d">>

(***************************************************************************)
(* Python string operations.                                               *)
(***************************************************************************)
\* None as the value of an object reference
None == [none |-> TRUE]

\* None as the value of a str or enum reference
NoneChoice == "None"

IsSpace(c) == c \in {" ", "\t", "\n"}

\* str.lower() on one character (the upper-case letters the texts use)
LowerChar(c) ==
    CASE c = "A" -> "a" [] c = "B" -> "b" [] c = "C" -> "c" [] c = "D" -> "d"
      [] c = "E" -> "e" [] c = "F" -> "f" [] c = "G" -> "g" [] c = "H" -> "h"
      [] c = "I" -> "i" [] c = "J" -> "j" [] c = "K" -> "k" [] c = "L" -> "l"
      [] c = "M" -> "m" [] c = "N" -> "n" [] c = "O" -> "o" [] c = "P" -> "p"
      [] c = "Q" -> "q" [] c = "R" -> "r" [] c = "S" -> "s" [] c = "T" -> "t"
      [] c = "U" -> "u" [] c = "V" -> "v" [] c = "W" -> "w" [] c = "X" -> "x"
      [] c = "Y" -> "y" [] c = "Z" -> "z" [] OTHER -> c

\* str.lower()
lower(t) == [i \in 1..Len(t) |-> LowerChar(t[i])]

\* str.lstrip()
RECURSIVE lstrip(_)
lstrip(t) == IF t # << >> /\ IsSpace(Head(t)) THEN lstrip(Tail(t)) ELSE t

\* str.rstrip()
RECURSIVE rstrip(_)
rstrip(t) ==
    IF t # << >> /\ IsSpace(t[Len(t)]) THEN rstrip(SubSeq(t, 1, Len(t) - 1)) ELSE t

\* str.strip(): drop leading and trailing whitespace
strip(t) == rstrip(lstrip(t))

\* the k-th smallest element of a set of positions
Nth(positions, k) ==
    CHOOSE x \in positions : Cardinality({y \in positions : y <= x}) = k

\* str.split(): the maximal runs of non-whitespace characters, in order
split(t) ==
    LET starts == {i \in 1..Len(t) : ~IsSpace(t[i]) /\ (i = 1 \/ IsSpace(t[i - 1]))}
        ends   == {i \in 1..Len(t) :
                       ~IsSpace(t[i]) /\ (i = Len(t) \/ IsSpace(t[i + 1]))}
    IN  [k \in 1..Cardinality(starts) |-> SubSeq(t, Nth(starts, k), Nth(ends, k))]

\* `keyword in text`: keyword occurs as a contiguous substring
Contains(text, keyword) ==
    \E i \in 1..(Len(text) - Len(keyword) + 1) :
        SubSeq(text, i, i + Len(keyword) - 1) = keyword

\* truthiness of a str inside all([...]): non-empty
Truthy(t) == t # << >>

\* a keyword list that also holds "hurt"
illegal_keywords_with_hurt ==
    <<KW_violence, KW_assault, KW_theft, KW_fraud, KW_harassment,
      KW_abuse, KW_threat, KW_danger, KW_weapon, KW_drugs, <<"h","u","r","t">>>>

illegal_keywords ==
    <<KW_violence, KW_assault, KW_theft, KW_fraud, KW_harassment,
      KW_abuse, KW_threat, KW_danger, KW_weapon, KW_drugs>>

\* a screen that compares without lowering the text
contains_illegal_content_case_sensitive(text) ==
    \E k \in 1..Len(illegal_keywords) : Contains(text, illegal_keywords[k])

contains_illegal_content(text) ==
    LET text_lower == lower(text)
    IN  \E k \in 1..Len(illegal_keywords) : Contains(text_lower, illegal_keywords[k])

(***************************************************************************)
(* Enumerations and the case record.                                       *)
(***************************************************************************)
\* class ConflictStage, in declaration order
ConflictStage ==
    <<"IDENTIFICATION", "USER_QUESTIONS", "PP_INVITATION", "PP_RESPONSES",
      "SUMMARY", "STRATEGIES", "RESOLUTION">>

\* class PPSimulationType
PPSimulationType == {"AUTO_GENERATE", "MANUAL_INPUT"}

\* a session_state key that was never assigned
Absent == "absent"

\* ConflictData(user_id=..., problem_description=..., problematic_party=...,
\* desired_outcome=...) followed by __post_init__ at time t
ConflictData(user_id, problem_description, problematic_party, desired_outcome, t) ==
    [ user_id              |-> user_id,
      problem_description  |-> problem_description,
      problematic_party    |-> problematic_party,
      desired_outcome      |-> desired_outcome,
      user_facts           |-> << >>,
      user_motive_theory   |-> << >>,
      user_past_attempts   |-> << >>,
      pp_facts             |-> << >>,
      pp_motive_theory     |-> << >>,
      pp_past_attempts     |-> << >>,
      pp_frustration_level |-> 0,
      pp_ideal_fix         |-> << >>,
      pp_misunderstandings |-> << >>,
      pp_impact            |-> << >>,
      pp_compromise        |-> FALSE,
      pp_simulation_type   |-> NoneChoice,
      stage                |-> "IDENTIFICATION",
      created_at           |-> t,
      updated_at           |-> t ]

(***************************************************************************)
(* The three fixed strategies (generate_strategies); the step texts are    *)
(* carried by their count only.                                            *)
(***************************************************************************)
collaborative ==
    [ name      |-> "Shared Responsibility System",
      archetype |-> "Collaborative (Win-Win)",
      timeline  |-> "30-60 days to full implementation",
      steps     |-> 5 ]

assertive ==
    [ name      |-> "Framed Benefit Approach",
      archetype |-> "Assertive (User-Favored)",
      timeline  |-> "2-3 weeks for initial agreement",
      steps     |-> 5 ]

exit_strategy ==
    [ name      |-> "Graceful Separation",
      archetype |-> "Exit (Clean Break)",
      timeline  |-> "Immediate boundaries, 60-90 days for full separation",
      steps     |-> 5 ]

generate_strategies == <<collaborative, assertive, exit_strategy>>

(***************************************************************************)
(* What the user can type or pick in the forms.                            *)
(***************************************************************************)
ProblemInputs     == {IN_Empty, IN_Blank, IN_Chores, IN_Hurt, IN_Fraud, IN_Threatening}
PartyInputs       == {IN_Empty, IN_Bob, IN_MrDanger}
OutcomeInputs     == {IN_Blank, IN_Peace, IN_NoAbuse}
UserFactsInputs   == {IN_Blank, IN_FactsOne, IN_FactsThree, IN_FactsSeven}
UserMotiveInputs  == {IN_Empty, IN_Lazy, IN_Busy}
UserAttemptInputs == {IN_Empty, IN_Talked}
PPFactsInputs     == {IN_Empty, IN_PPFacts}
PPMotiveInputs    == {IN_Blank, IN_PPMotive}
PPAttemptInputs   == {IN_Empty, IN_PPAttempts}
PPFixInputs       == {IN_Blank, IN_PPFix}
PPMisInputs       == {IN_Empty, IN_PPMisunderstanding}
PPImpactInputs    == {IN_Empty, IN_PPImpact}
\* st.slider(min_value=1, max_value=10): the ends and the default
SliderInputs      == {1, 5, 10}

\* the ids uuid.uuid4() can return within the bound
UuidPool == 1..MaxCases

(***************************************************************************)
(* State: the keys of st.session_state, the wall clock, the ids uuid4 has  *)
(* returned so far, and the branch the last script run took (the message   *)
(* it rendered).                                                           *)
(***************************************************************************)
VARIABLES
    conflict_data,
    current_stage,
    pp_simulation_mode,
    strategy_selected,
    messages_generated,
    show_manual_pp,
    pp_simulation_choice,
    pp_simulation_type,
    now,
    uuid_issued,
    ran

\* the keys of st.session_state
session_state ==
    <<conflict_data, current_stage, pp_simulation_mode, strategy_selected,
      messages_generated, show_manual_pp, pp_simulation_choice, pp_simulation_type>>

vars ==
    <<conflict_data, current_stage, pp_simulation_mode, strategy_selected,
      messages_generated, show_manual_pp, pp_simulation_choice, pp_simulation_type,
      now, uuid_issued, ran>>

\* initialize_session_state on a new session
initialize_session_state ==
    /\ conflict_data = None
    /\ current_stage = "IDENTIFICATION"
    /\ pp_simulation_mode = FALSE
    /\ strategy_selected = None
    /\ messages_generated = FALSE
    /\ show_manual_pp = FALSE
    /\ pp_simulation_choice = NoneChoice
    /\ pp_simulation_type = Absent

Init ==
    /\ initialize_session_state
    /\ now = 0
    /\ uuid_issued = {}
    /\ ran = "start"

(***************************************************************************)
(* Step 1: stage_identification, the "Analyze Problem" submit.             *)
(***************************************************************************)
\* uuid.uuid4(): an id never returned before
uuid4(id) == id \in UuidPool \ uuid_issued

\* stage_identification with a constant in place of uuid.uuid4()
stage_identification_fixed_id(problem_desc, pp_name, desired_outcome) ==
    IF ~(Truthy(strip(problem_desc)) /\ Truthy(strip(pp_name))
           /\ Truthy(strip(desired_outcome)))
    THEN /\ ran' = "error: fill in all fields"
         /\ UNCHANGED <<conflict_data, current_stage, pp_simulation_mode,
                        strategy_selected, messages_generated, show_manual_pp,
                        pp_simulation_choice, pp_simulation_type, now, uuid_issued>>
    ELSE IF contains_illegal_content(problem_desc)
    THEN /\ ran' = "error: illegal activity"
         /\ UNCHANGED <<conflict_data, current_stage, pp_simulation_mode,
                        strategy_selected, messages_generated, show_manual_pp,
                        pp_simulation_choice, pp_simulation_type, now, uuid_issued>>
    ELSE /\ uuid_issued' = uuid_issued \cup {1}
         /\ conflict_data' = ConflictData(1, strip(problem_desc), strip(pp_name),
                                          strip(desired_outcome), now)
         /\ current_stage' = "USER_QUESTIONS"
         /\ ran' = "success: problem analyzed"
         /\ UNCHANGED <<pp_simulation_mode, strategy_selected, messages_generated,
                        show_manual_pp, pp_simulation_choice, pp_simulation_type, now>>

\* stage_identification that requires the problem description only
stage_identification_problem_only(problem_desc, pp_name, desired_outcome) ==
    IF ~Truthy(strip(problem_desc))
    THEN /\ ran' = "error: fill in all fields"
         /\ UNCHANGED <<conflict_data, current_stage, pp_simulation_mode,
                        strategy_selected, messages_generated, show_manual_pp,
                        pp_simulation_choice, pp_simulation_type, now, uuid_issued>>
    ELSE IF contains_illegal_content(problem_desc)
    THEN /\ ran' = "error: illegal activity"
         /\ UNCHANGED <<conflict_data, current_stage, pp_simulation_mode,
                        strategy_selected, messages_generated, show_manual_pp,
                        pp_simulation_choice, pp_simulation_type, now, uuid_issued>>
    ELSE \E id \in UuidPool :
         /\ uuid4(id)
         /\ uuid_issued' = uuid_issued \cup {id}
         /\ conflict_data' = ConflictData(id, strip(problem_desc), strip(pp_name),
                                          strip(desired_outcome), now)
         /\ current_stage' = "USER_QUESTIONS"
         /\ ran' = "success: problem analyzed"
         /\ UNCHANGED <<pp_simulation_mode, strategy_selected, messages_generated,
                        show_manual_pp, pp_simulation_choice, pp_simulation_type, now>>

stage_identification(problem_desc, pp_name, desired_outcome) ==
    IF ~(Truthy(strip(problem_desc)) /\ Truthy(strip(pp_name))
           /\ Truthy(strip(desired_outcome)))
    THEN /\ ran' = "error: fill in all fields"
         /\ UNCHANGED <<conflict_data, current_stage, pp_simulation_mode,
                        strategy_selected, messages_generated, show_manual_pp,
                        pp_simulation_choice, pp_simulation_type, now, uuid_issued>>
    ELSE IF contains_illegal_content(problem_desc)
    THEN /\ ran' = "error: illegal activity"
         /\ UNCHANGED <<conflict_data, current_stage, pp_simulation_mode,
                        strategy_selected, messages_generated, show_manual_pp,
                        pp_simulation_choice, pp_simulation_type, now, uuid_issued>>
    ELSE \E id \in UuidPool :
         /\ uuid4(id)
         /\ uuid_issued' = uuid_issued \cup {id}
         /\ conflict_data' = ConflictData(id, strip(problem_desc), strip(pp_name),
                                          strip(desired_outcome), now)
         /\ current_stage' = "USER_QUESTIONS"
         /\ ran' = "success: problem analyzed"
         /\ UNCHANGED <<pp_simulation_mode, strategy_selected, messages_generated,
                        show_manual_pp, pp_simulation_choice, pp_simulation_type, now>>

(***************************************************************************)
(* Step 2: stage_user_questions, the "Save Your Perspective" submit.       *)
(***************************************************************************)
stage_user_questions(user_facts, user_motive, user_attempts) ==
    IF ~(Truthy(strip(user_facts)) /\ Truthy(strip(user_motive))
           /\ Truthy(strip(user_attempts)))
    THEN /\ ran' = "error: answer all questions"
         /\ UNCHANGED <<conflict_data, current_stage, pp_simulation_mode,
                        strategy_selected, messages_generated, show_manual_pp,
                        pp_simulation_choice, pp_simulation_type, now, uuid_issued>>
    ELSE /\ conflict_data' =
               [conflict_data EXCEPT
                   !.user_facts = strip(user_facts),
                   !.user_motive_theory = strip(user_motive),
                   !.user_past_attempts = strip(user_attempts),
                   !.stage = "PP_INVITATION"]
         /\ ran' = "success: perspective saved"
         /\ UNCHANGED <<current_stage, pp_simulation_mode, strategy_selected,
                        messages_generated, show_manual_pp, pp_simulation_choice,
                        pp_simulation_type, now, uuid_issued>>

(***************************************************************************)
(* Step 3: stage_pp_invitation and generate_simulated_pp_responses.        *)
(***************************************************************************)
\* the first option is an f-string over user_facts.split()[0] and [3]
pp_facts_options(conflict) ==
    <<FACTS_PREFIX \o split(conflict.user_facts)[1] \o FACTS_AND
          \o split(conflict.user_facts)[4],
      FACTS_2, FACTS_3, FACTS_4, FACTS_5, FACTS_6>>

pp_motive_options == <<MOTIVE_1, MOTIVE_2, MOTIVE_3, MOTIVE_4, MOTIVE_5, MOTIVE_6>>

pp_attempts_options ==
    <<ATTEMPTS_1, ATTEMPTS_2, ATTEMPTS_3, ATTEMPTS_4, ATTEMPTS_5, ATTEMPTS_6>>

\* building pp_facts_options raises IndexError when user_facts has fewer than
\* four words: the list literal is evaluated before any field is written
GenerateRaises(conflict) == Len(split(conflict.user_facts)) < 4

\* random.randint(4, 8)
RandFrustration == 4..8

\* random.choice([True, True, False])
RandCompromise == {TRUE, FALSE}

\* the fields written when nothing raises; i, j, k, f, c are the random draws
generate_simulated_pp_responses(conflict, i, j, k, f, c) ==
    [conflict EXCEPT
        !.pp_facts = pp_facts_options(conflict)[i],
        !.pp_motive_theory = pp_motive_options[j],
        !.pp_past_attempts = pp_attempts_options[k],
        !.pp_frustration_level = f,
        !.pp_ideal_fix = IDEAL_FIX,
        !.pp_misunderstandings = MISUNDERSTANDINGS,
        !.pp_impact = IMPACT,
        !.pp_compromise = c]

\* auto_generate_btn without the pp_simulation_choice assignment
auto_generate_btn_no_choice ==
    /\ pp_simulation_type' = "AUTO_GENERATE"
    /\ IF GenerateRaises(conflict_data)
       THEN /\ ran' = "exception: IndexError"
            /\ UNCHANGED <<conflict_data, current_stage>>
       ELSE /\ \E i \in 1..6, j \in 1..Len(pp_motive_options),
                  k \in 1..Len(pp_attempts_options),
                  f \in RandFrustration, c \in RandCompromise :
                  conflict_data' =
                      generate_simulated_pp_responses(conflict_data, i, j, k, f, c)
            /\ current_stage' = "SUMMARY"
            /\ ran' = "success: generated"
    /\ UNCHANGED <<pp_simulation_mode, strategy_selected, messages_generated,
                   show_manual_pp, pp_simulation_choice, now, uuid_issued>>

\* the "Auto-Generate PP Responses" button
auto_generate_btn ==
    /\ pp_simulation_choice' = "auto"
    /\ pp_simulation_type' = "AUTO_GENERATE"
    /\ IF GenerateRaises(conflict_data)
       THEN /\ ran' = "exception: IndexError"
            /\ UNCHANGED <<conflict_data, current_stage>>
       ELSE /\ \E i \in 1..6, j \in 1..Len(pp_motive_options),
                  k \in 1..Len(pp_attempts_options),
                  f \in RandFrustration, c \in RandCompromise :
                  conflict_data' =
                      generate_simulated_pp_responses(conflict_data, i, j, k, f, c)
            /\ current_stage' = "SUMMARY"
            /\ ran' = "success: generated"
    /\ UNCHANGED <<pp_simulation_mode, strategy_selected, messages_generated,
                   show_manual_pp, now, uuid_issued>>

\* manual_input_btn that opens the PP_RESPONSES stage for the manual answers
manual_input_btn_opens_stage ==
    /\ pp_simulation_choice' = "manual"
    /\ pp_simulation_type' = "MANUAL_INPUT"
    /\ show_manual_pp' = TRUE
    /\ current_stage' = "PP_RESPONSES"
    /\ ran' = "manual chosen"
    /\ UNCHANGED <<conflict_data, pp_simulation_mode,
                   strategy_selected, messages_generated, now, uuid_issued>>

\* manual_input_btn without the show_manual_pp assignment
manual_input_btn_no_flag ==
    /\ pp_simulation_choice' = "manual"
    /\ pp_simulation_type' = "MANUAL_INPUT"
    /\ ran' = "manual chosen"
    /\ UNCHANGED <<conflict_data, current_stage, pp_simulation_mode, show_manual_pp,
                   strategy_selected, messages_generated, now, uuid_issued>>

\* the "Enter PP Responses Manually" button
manual_input_btn ==
    /\ pp_simulation_choice' = "manual"
    /\ pp_simulation_type' = "MANUAL_INPUT"
    /\ show_manual_pp' = TRUE
    /\ ran' = "manual chosen"
    /\ UNCHANGED <<conflict_data, current_stage, pp_simulation_mode,
                   strategy_selected, messages_generated, now, uuid_issued>>

\* the condition under which stage_pp_invitation calls render_manual_pp_input
ManualFormRendered == show_manual_pp /\ pp_simulation_choice = "manual"

\* save_pp_responses without the check of the required fields
save_pp_responses_unvalidated(pp_facts, pp_motive, pp_attempts, pp_frustration, pp_ideal_fix, pp_misunderstandings, pp_impact, pp_compromise) ==
    /\ conflict_data' =
           [conflict_data EXCEPT
               !.pp_facts = strip(pp_facts),
               !.pp_motive_theory = strip(pp_motive),
               !.pp_past_attempts = strip(pp_attempts),
               !.pp_frustration_level = pp_frustration,
               !.pp_ideal_fix = strip(pp_ideal_fix),
               !.pp_misunderstandings = strip(pp_misunderstandings),
               !.pp_impact = strip(pp_impact),
               !.pp_compromise = pp_compromise]
    /\ current_stage' = "SUMMARY"
    /\ ran' = "success: pp responses saved"
    /\ UNCHANGED <<pp_simulation_mode, strategy_selected, messages_generated,
                   show_manual_pp, pp_simulation_choice, pp_simulation_type,
                   now, uuid_issued>>

\* save_pp_responses that stores the texts as typed, without strip()
save_pp_responses_unstripped(pp_facts, pp_motive, pp_attempts, pp_frustration, pp_ideal_fix, pp_misunderstandings, pp_impact, pp_compromise) ==
    IF ~(Truthy(strip(pp_facts)) /\ Truthy(strip(pp_motive))
           /\ Truthy(strip(pp_attempts)) /\ Truthy(strip(pp_ideal_fix)))
    THEN /\ ran' = "error: complete core questions"
         /\ UNCHANGED <<conflict_data, current_stage, pp_simulation_mode,
                        strategy_selected, messages_generated, show_manual_pp,
                        pp_simulation_choice, pp_simulation_type, now, uuid_issued>>
    ELSE /\ conflict_data' =
               [conflict_data EXCEPT
                   !.pp_facts = pp_facts,
                   !.pp_motive_theory = pp_motive,
                   !.pp_past_attempts = pp_attempts,
                   !.pp_frustration_level = pp_frustration,
                   !.pp_ideal_fix = pp_ideal_fix,
                   !.pp_misunderstandings = pp_misunderstandings,
                   !.pp_impact = pp_impact,
                   !.pp_compromise = pp_compromise]
         /\ current_stage' = "SUMMARY"
         /\ ran' = "success: pp responses saved"
         /\ UNCHANGED <<pp_simulation_mode, strategy_selected, messages_generated,
                        show_manual_pp, pp_simulation_choice, pp_simulation_type,
                        now, uuid_issued>>

\* save_pp_responses that also requires the impact answer
save_pp_responses_requires_impact(pp_facts, pp_motive, pp_attempts, pp_frustration, pp_ideal_fix, pp_misunderstandings, pp_impact, pp_compromise) ==
    IF ~(Truthy(strip(pp_facts)) /\ Truthy(strip(pp_motive))
           /\ Truthy(strip(pp_attempts)) /\ Truthy(strip(pp_ideal_fix))
           /\ Truthy(strip(pp_impact)))
    THEN /\ ran' = "error: complete core questions"
         /\ UNCHANGED <<conflict_data, current_stage, pp_simulation_mode,
                        strategy_selected, messages_generated, show_manual_pp,
                        pp_simulation_choice, pp_simulation_type, now, uuid_issued>>
    ELSE /\ conflict_data' =
               [conflict_data EXCEPT
                   !.pp_facts = strip(pp_facts),
                   !.pp_motive_theory = strip(pp_motive),
                   !.pp_past_attempts = strip(pp_attempts),
                   !.pp_frustration_level = pp_frustration,
                   !.pp_ideal_fix = strip(pp_ideal_fix),
                   !.pp_misunderstandings = strip(pp_misunderstandings),
                   !.pp_impact = strip(pp_impact),
                   !.pp_compromise = pp_compromise]
         /\ current_stage' = "SUMMARY"
         /\ ran' = "success: pp responses saved"
         /\ UNCHANGED <<pp_simulation_mode, strategy_selected, messages_generated,
                        show_manual_pp, pp_simulation_choice, pp_simulation_type,
                        now, uuid_issued>>

\* render_manual_pp_input, the "Save PP Responses" submit
save_pp_responses(pp_facts, pp_motive, pp_attempts, pp_frustration, pp_ideal_fix, pp_misunderstandings, pp_impact, pp_compromise) ==
    IF ~(Truthy(strip(pp_facts)) /\ Truthy(strip(pp_motive))
           /\ Truthy(strip(pp_attempts)) /\ Truthy(strip(pp_ideal_fix)))
    THEN /\ ran' = "error: complete core questions"
         /\ UNCHANGED <<conflict_data, current_stage, pp_simulation_mode,
                        strategy_selected, messages_generated, show_manual_pp,
                        pp_simulation_choice, pp_simulation_type, now, uuid_issued>>
    ELSE /\ conflict_data' =
               [conflict_data EXCEPT
                   !.pp_facts = strip(pp_facts),
                   !.pp_motive_theory = strip(pp_motive),
                   !.pp_past_attempts = strip(pp_attempts),
                   !.pp_frustration_level = pp_frustration,
                   !.pp_ideal_fix = strip(pp_ideal_fix),
                   !.pp_misunderstandings = strip(pp_misunderstandings),
                   !.pp_impact = strip(pp_impact),
                   !.pp_compromise = pp_compromise]
         /\ current_stage' = "SUMMARY"
         /\ ran' = "success: pp responses saved"
         /\ UNCHANGED <<pp_simulation_mode, strategy_selected, messages_generated,
                        show_manual_pp, pp_simulation_choice, pp_simulation_type,
                        now, uuid_issued>>

\* Clear All that empties the answers of the user as well
clear_all_with_user_answers ==
    /\ conflict_data' =
           [conflict_data EXCEPT
               !.user_facts = << >>,
               !.user_motive_theory = << >>,
               !.user_past_attempts = << >>,
               !.pp_facts = << >>,
               !.pp_motive_theory = << >>,
               !.pp_past_attempts = << >>,
               !.pp_frustration_level = 0,
               !.pp_ideal_fix = << >>,
               !.pp_misunderstandings = << >>,
               !.pp_impact = << >>,
               !.pp_compromise = FALSE]
    /\ ran' = "cleared"
    /\ UNCHANGED <<current_stage, pp_simulation_mode, strategy_selected,
                   messages_generated, show_manual_pp, pp_simulation_choice,
                   pp_simulation_type, now, uuid_issued>>

\* Clear All that stores the slider default instead of 0
clear_all_mid_range ==
    /\ conflict_data' =
           [conflict_data EXCEPT
               !.pp_facts = << >>,
               !.pp_motive_theory = << >>,
               !.pp_past_attempts = << >>,
               !.pp_frustration_level = 5,
               !.pp_ideal_fix = << >>,
               !.pp_misunderstandings = << >>,
               !.pp_impact = << >>,
               !.pp_compromise = FALSE]
    /\ ran' = "cleared"
    /\ UNCHANGED <<current_stage, pp_simulation_mode, strategy_selected,
                   messages_generated, show_manual_pp, pp_simulation_choice,
                   pp_simulation_type, now, uuid_issued>>

\* render_manual_pp_input, the "Clear All" submit
clear_all ==
    /\ conflict_data' =
           [conflict_data EXCEPT
               !.pp_facts = << >>,
               !.pp_motive_theory = << >>,
               !.pp_past_attempts = << >>,
               !.pp_frustration_level = 0,
               !.pp_ideal_fix = << >>,
               !.pp_misunderstandings = << >>,
               !.pp_impact = << >>,
               !.pp_compromise = FALSE]
    /\ ran' = "cleared"
    /\ UNCHANGED <<current_stage, pp_simulation_mode, strategy_selected,
                   messages_generated, show_manual_pp, pp_simulation_choice,
                   pp_simulation_type, now, uuid_issued>>

(***************************************************************************)
(* Steps 4 to 6 and the reset.                                             *)
(***************************************************************************)
\* "frustrated"
II_frustrated ==
    <<"f","r","u","s","t","r","a","t","e","d">>

\* "angry"
II_angry ==
    <<"a","n","g","r","y">>

\* "upset"
II_upset ==
    <<"u","p","s","e","t">>

\* "annoyed"
II_annoyed ==
    <<"a","n","n","o","y","e","d">>

\* "tired"
II_tired ==
    <<"t","i","r","e","d">>

\* "stressed"
II_stressed ==
    <<"s","t","r","e","s","s","e","d">>

\* "hate"
II_hate ==
    <<"h","a","t","e">>

\* "dislike"
II_dislike ==
    <<"d","i","s","l","i","k","e">>

\* set(words) of a list of words
set(words) == {words[i] : i \in 1..Len(words)}

\* min(a, b)
min(a, b) == IF a <= b THEN a ELSE b

\* abs(a)
abs(a) == IF a < 0 THEN 0 - a ELSE a

intensity_indicators ==
    <<II_frustrated, II_angry, II_upset, II_annoyed, II_tired, II_stressed,
      II_hate, II_dislike>>

\* estimate_user_intensity: 5, plus one per indicator found in the lowered text
\* of the three user answers, plus one per twenty words, at most 10
estimate_user_intensity(conflict) ==
    LET user_text == conflict.user_facts \o <<" ">> \o conflict.user_motive_theory
                        \o <<" ">> \o conflict.user_past_attempts
        found == {k \in 1..Len(intensity_indicators) :
                      Contains(lower(user_text), intensity_indicators[k])}
        intensity_score == 5 + Cardinality(found)
    IN  min(intensity_score + (Len(split(user_text)) \div 20), 10)

\* the words both fact answers share
common_words(conflict) ==
    set(split(lower(conflict.user_facts))) \cap set(split(lower(conflict.pp_facts)))

\* find_common_facts: the texts it can return; with more than three shared
\* words it names the first three of list(common), whose order is the
\* iteration order of a set of str and differs from one process to the next
find_common_facts(conflict) ==
    LET common == common_words(conflict)
    IN  IF Cardinality(common) > 3
        THEN {[text |-> "Both mention", words |-> first] :
                  first \in {w \in common \X common \X common :
                                 Cardinality(set(w)) = 3}}
        ELSE {[text |-> "Shared living/working space acknowledged",
               words |-> << >>]}

(***************************************************************************)
(* Python float arithmetic (IEEE 754 binary64, round to nearest, ties to   *)
(* even) for the positive values calculate_agreement_rate computes.  A     *)
(* float is [bits, exp]: 53 significand bits, the first one 1, and the     *)
(* exponent of that first bit.  Integers stay below 2^31.                  *)
(***************************************************************************)
\* the integer a short sequence of bits denotes
RECURSIVE BitsToInt(_)
BitsToInt(b) ==
    IF b = << >> THEN 0 ELSE 2 * BitsToInt(SubSeq(b, 1, Len(b) - 1)) + b[Len(b)]

\* 2^k modulo b
RECURSIVE Pow2Mod(_, _)
Pow2Mod(k, b) ==
    IF k = 0 THEN 1 % b
    ELSE IF k % 2 = 1 THEN (2 * Pow2Mod(k - 1, b)) % b
    ELSE LET half == Pow2Mod(k \div 2, b) IN (half * half) % b

\* what is left of r / b (r < b) after k binary places
Remainder(r, b, k) == (r * Pow2Mod(k, b)) % b

\* the first k binary places of r / b (r < b)
Quotient(r, b, k) == [i \in 1..k |-> (2 * Remainder(r, b, i - 1)) \div b]

\* the bit sequence plus one
Increment(b) ==
    IF \A j \in 1..Len(b) : b[j] = 1
    THEN <<1>> \o [i \in 1..Len(b) |-> 0]
    ELSE [i \in 1..Len(b) |->
             IF \A j \in (i + 1)..Len(b) : b[j] = 1 THEN 1 - b[i] ELSE b[i]]

\* rounding of the exact value 1.w[2]w[3]... * 2^e (sticky: non-zero bits
\* follow w) to 53 bits, to nearest, ties to even
RoundToDouble(w, sticky, e) ==
    LET keep == SubSeq(w, 1, 53)
        half == w[54] = 1
        more == sticky \/ \E i \in 55..Len(w) : w[i] = 1
        up   == half /\ (more \/ keep[53] = 1)
        sum  == Increment(keep)
    IN  IF ~up THEN [bits |-> keep, exp |-> e]
        ELSE IF Len(sum) = 54 THEN [bits |-> SubSeq(sum, 1, 53), exp |-> e + 1]
        ELSE [bits |-> sum, exp |-> e]

\* the numerator doubled until it reaches the denominator, and the count
RECURSIVE Normalize(_, _, _)
Normalize(a, b, z) == IF a >= b THEN <<a, z>> ELSE Normalize(2 * a, b, z + 1)

\* int / int for 0 < a <= b: the correctly rounded quotient
truediv(a, b) ==
    LET nz == Normalize(a, b, 0)
    IN  RoundToDouble(<<1>> \o Quotient(nz[1] - b, b, 53),
                      Remainder(nz[1] - b, b, 53) # 0, 0 - nz[2])

\* the bits cut into groups of ten from the right, each group as an integer
Limbs(b) ==
    LET n == (Len(b) + 9) \div 10
    IN  [g \in 1..n |->
            LET last == Len(b) - 10 * (n - g)
            IN  BitsToInt(SubSeq(b, IF last > 10 THEN last - 9 ELSE 1, last))]

\* limbs times k, from limb i down, with a carry
RECURSIVE TimesCarry(_, _, _, _)
TimesCarry(x, k, i, carry) ==
    IF i = 0 THEN <<carry>>
    ELSE TimesCarry(x, k, i - 1, (x[i] * k + carry) \div 1024)
             \o <<(x[i] * k + carry) % 1024>>

\* the bits of a sequence of limbs, without leading zeros
LimbBits(x) ==
    LET all   == [i \in 1..(10 * Len(x)) |->
                     (x[((i - 1) \div 10) + 1] \div 2^(9 - ((i - 1) % 10))) % 2]
        first == CHOOSE i \in 1..Len(all) :
                     all[i] = 1 /\ \A j \in 1..(i - 1) : all[j] = 0
    IN  SubSeq(all, first, Len(all))

\* float * k for a small positive int k: the exact product, rounded
float_mul(x, k) ==
    LET limbs == Limbs(x.bits)
        w     == LimbBits(TimesCarry(limbs, k, Len(limbs), 0))
    IN  RoundToDouble(w, FALSE, x.exp + Len(w) - 53)

\* int(float): the bits in front of the binary point
int(x) == IF x.exp < 0 THEN 0 ELSE BitsToInt(SubSeq(x.bits, 1, x.exp + 1))

\* calculate_agreement_rate: 0 for no user words, else
\* min(int(len(common) / len(user_words) * 100), 100) in float arithmetic
\* (0 / n * 100 is 0.0)
calculate_agreement_rate(conflict) ==
    LET user_words == set(split(lower(conflict.user_facts)))
        common == common_words(conflict)
        agreement == IF Cardinality(common) = 0 THEN 0
                     ELSE int(float_mul(truediv(Cardinality(common),
                                                Cardinality(user_words)), 100))
    IN  IF Cardinality(user_words) = 0 THEN 0 ELSE min(agreement, 100)

\* what stage_summary computes for its table and metrics before the button
summary_data(conflict) ==
    [common_ground |-> find_common_facts(conflict),
     user_intensity |-> estimate_user_intensity(conflict),
     pp_intensity |-> conflict.pp_frustration_level,
     agreement_rate |-> calculate_agreement_rate(conflict),
     emotional_gap |-> abs(estimate_user_intensity(conflict)
                            - conflict.pp_frustration_level)]

\* stage_summary that also records the stage in the case, as line 315 does
stage_summary_marks_case ==
    /\ current_stage' = "STRATEGIES"
    /\ conflict_data' = [conflict_data EXCEPT !.stage = "STRATEGIES"]
    /\ ran' = "to strategies"
    /\ UNCHANGED <<pp_simulation_mode, strategy_selected, messages_generated,
                   show_manual_pp, pp_simulation_choice, pp_simulation_type,
                   now, uuid_issued>>

\* stage_summary that jumps over the strategy selection
stage_summary_skips ==
    /\ current_stage' = "RESOLUTION"
    /\ ran' = "to strategies"
    /\ UNCHANGED <<conflict_data, pp_simulation_mode, strategy_selected,
                   messages_generated, show_manual_pp, pp_simulation_choice,
                   pp_simulation_type, now, uuid_issued>>

\* stage_summary, the "Generate Resolution Strategies" button
stage_summary ==
    /\ current_stage' = "STRATEGIES"
    /\ ran' = "to strategies"
    /\ UNCHANGED <<conflict_data, pp_simulation_mode, strategy_selected,
                   messages_generated, show_manual_pp, pp_simulation_choice,
                   pp_simulation_type, now, uuid_issued>>

\* stage_strategies that moves on without storing the strategy
stage_strategies_forgets(i) ==
    /\ current_stage' = "RESOLUTION"
    /\ ran' = "strategy selected"
    /\ UNCHANGED <<conflict_data, pp_simulation_mode, messages_generated,
                   strategy_selected, show_manual_pp, pp_simulation_choice,
                   pp_simulation_type, now, uuid_issued>>

\* stage_strategies whose button i stores the strategy after the i-th
stage_strategies_off_by_one(i) ==
    /\ strategy_selected' = generate_strategies[(i % 3) + 1]
    /\ current_stage' = "RESOLUTION"
    /\ ran' = "strategy selected"
    /\ UNCHANGED <<conflict_data, pp_simulation_mode, messages_generated,
                   show_manual_pp, pp_simulation_choice, pp_simulation_type,
                   now, uuid_issued>>

\* stage_strategies, the "Select Strategy i" button
stage_strategies(i) ==
    /\ strategy_selected' = generate_strategies[i]
    /\ current_stage' = "RESOLUTION"
    /\ ran' = "strategy selected"
    /\ UNCHANGED <<conflict_data, pp_simulation_mode, messages_generated,
                   show_manual_pp, pp_simulation_choice, pp_simulation_type,
                   now, uuid_issued>>

\* generate_message_templates: three messages; the tone and the archetype
\* branch that wrote the content are kept, the wording is not
generate_message_templates(strategy, conflict) ==
    LET branch == IF strategy.archetype = "Collaborative (Win-Win)"
                  THEN "collaborative"
                  ELSE IF strategy.archetype = "Assertive (User-Favored)"
                  THEN "assertive"
                  ELSE "exit"
    IN  <<[tone |-> "Soft", content |-> branch],
          [tone |-> "Firm", content |-> branch],
          [tone |-> "Direct", content |-> branch]>>

\* send_message that also closes the mediation
send_message_closes(template_num) ==
    /\ messages_generated' = TRUE
    /\ current_stage' = "IDENTIFICATION"
    /\ ran' = "success: template sent"
    /\ UNCHANGED <<conflict_data, pp_simulation_mode,
                   strategy_selected, show_manual_pp, pp_simulation_choice,
                   pp_simulation_type, now, uuid_issued>>

\* stage_resolution, the "Send Template i" button
send_message(template_num) ==
    /\ messages_generated' = TRUE
    /\ ran' = "success: template sent"
    /\ UNCHANGED <<conflict_data, current_stage, pp_simulation_mode,
                   strategy_selected, show_manual_pp, pp_simulation_choice,
                   pp_simulation_type, now, uuid_issued>>

\* reset_session that leaves the case in the session
reset_session_keeps_case ==
    /\ current_stage' = "IDENTIFICATION"
    /\ pp_simulation_mode' = FALSE
    /\ strategy_selected' = None
    /\ messages_generated' = FALSE
    /\ show_manual_pp' = FALSE
    /\ pp_simulation_choice' = NoneChoice
    /\ ran' = "reset"
    /\ UNCHANGED <<conflict_data, pp_simulation_type, now, uuid_issued>>

\* reset_session that leaves the selected strategy in the session
reset_session_keeps_strategy ==
    /\ conflict_data' = None
    /\ current_stage' = "IDENTIFICATION"
    /\ pp_simulation_mode' = FALSE
    /\ messages_generated' = FALSE
    /\ show_manual_pp' = FALSE
    /\ pp_simulation_choice' = NoneChoice
    /\ ran' = "reset"
    /\ UNCHANGED <<strategy_selected, pp_simulation_type, now, uuid_issued>>

\* stage_resolution, the "Start New Mediation" button
reset_session ==
    /\ conflict_data' = None
    /\ current_stage' = "IDENTIFICATION"
    /\ pp_simulation_mode' = FALSE
    /\ strategy_selected' = None
    /\ messages_generated' = FALSE
    /\ show_manual_pp' = FALSE
    /\ pp_simulation_choice' = NoneChoice
    /\ ran' = "reset"
    /\ UNCHANGED <<pp_simulation_type, now, uuid_issued>>

(***************************************************************************)
(* run(): one script run handles one user event of the stage that          *)
(* current_stage selects.  PP_RESPONSES has no branch.                     *)
(***************************************************************************)
AnalyzeProblem ==
    /\ current_stage = "IDENTIFICATION"
    /\ \E p \in ProblemInputs, n \in PartyInputs, o \in OutcomeInputs :
           stage_identification(p, n, o)

SavePerspective ==
    /\ current_stage = "USER_QUESTIONS"
    /\ \E f \in UserFactsInputs, m \in UserMotiveInputs, a \in UserAttemptInputs :
           stage_user_questions(f, m, a)

AutoGenerate ==
    /\ current_stage = "PP_INVITATION"
    /\ auto_generate_btn

ManualInput ==
    /\ current_stage = "PP_INVITATION"
    /\ manual_input_btn

SavePPResponses ==
    /\ current_stage = "PP_INVITATION"
    /\ ManualFormRendered
    /\ \E f \in PPFactsInputs, m \in PPMotiveInputs, a \in PPAttemptInputs,
          s \in SliderInputs, x \in PPFixInputs, u \in PPMisInputs,
          e \in PPImpactInputs, c \in BOOLEAN :
           save_pp_responses(f, m, a, s, x, u, e, c)

ClearAll ==
    /\ current_stage = "PP_INVITATION"
    /\ ManualFormRendered
    /\ clear_all

GenerateStrategies ==
    /\ current_stage = "SUMMARY"
    /\ stage_summary

SelectStrategy ==
    /\ current_stage = "STRATEGIES"
    /\ \E i \in 1..Len(generate_strategies) : stage_strategies(i)

SendTemplate ==
    /\ current_stage = "RESOLUTION"
    /\ \E i \in 1..3 : send_message(i)

StartNewMediation ==
    /\ current_stage = "RESOLUTION"
    /\ reset_session

\* time passes between two script runs
Tick ==
    /\ now < MaxTime
    /\ now' = now + 1
    /\ UNCHANGED <<conflict_data, current_stage, pp_simulation_mode,
                   strategy_selected, messages_generated, show_manual_pp,
                   pp_simulation_choice, pp_simulation_type, uuid_issued, ran>>

run ==
    \/ AnalyzeProblem
    \/ SavePerspective
    \/ AutoGenerate
    \/ ManualInput
    \/ SavePPResponses
    \/ ClearAll
    \/ GenerateStrategies
    \/ SelectStrategy
    \/ SendTemplate
    \/ StartNewMediation

(***************************************************************************)
(* Specifications.                                                         *)
(***************************************************************************)
\* run() as its if/elif chain on current_stage (lines 957-968)
Dispatch ==
    IF current_stage = "IDENTIFICATION" THEN AnalyzeProblem
    ELSE IF current_stage = "USER_QUESTIONS" THEN SavePerspective
    ELSE IF current_stage = "PP_INVITATION"
         THEN AutoGenerate \/ ManualInput \/ SavePPResponses \/ ClearAll
    ELSE IF current_stage = "SUMMARY" THEN GenerateStrategies
    ELSE IF current_stage = "STRATEGIES" THEN SelectStrategy
    ELSE IF current_stage = "RESOLUTION" THEN SendTemplate \/ StartNewMediation
    ELSE FALSE

Next == Dispatch \/ Tick

\* the application, from a new session
Spec == Init /\ [][Next]_vars

\* the inputs that pass each form's validation
ValidProblems ==
    {p \in ProblemInputs : Truthy(strip(p)) /\ ~contains_illegal_content(p)}

NonEmpty(inputs) == {t \in inputs : Truthy(strip(t))}

ValidParties      == NonEmpty(PartyInputs)
ValidOutcomes     == NonEmpty(OutcomeInputs)
ValidUserFacts    == NonEmpty(UserFactsInputs)
ValidUserMotives  == NonEmpty(UserMotiveInputs)
ValidUserAttempts == NonEmpty(UserAttemptInputs)
ValidPPFacts      == NonEmpty(PPFactsInputs)
ValidPPMotives    == NonEmpty(PPMotiveInputs)
ValidPPAttempts   == NonEmpty(PPAttemptInputs)
ValidPPFixes      == NonEmpty(PPFixInputs)

\* a user who fills every form validly and presses the button that leads on
ValidUser ==
    IF current_stage = "IDENTIFICATION"
    THEN \E p \in ValidProblems, n \in ValidParties,
            o \in ValidOutcomes : stage_identification(p, n, o)
    ELSE IF current_stage = "USER_QUESTIONS"
    THEN \E f \in ValidUserFacts, m \in ValidUserMotives,
            a \in ValidUserAttempts : stage_user_questions(f, m, a)
    ELSE IF current_stage = "PP_INVITATION"
    THEN \/ auto_generate_btn
         \/ manual_input_btn
         \/ /\ ManualFormRendered
            /\ \E f \in ValidPPFacts, m \in ValidPPMotives,
                  a \in ValidPPAttempts, s \in SliderInputs,
                  x \in ValidPPFixes, u \in PPMisInputs,
                  e \in PPImpactInputs, c \in BOOLEAN :
                   save_pp_responses(f, m, a, s, x, u, e, c)
    ELSE IF current_stage = "SUMMARY" THEN stage_summary
    ELSE IF current_stage = "STRATEGIES"
    THEN \E i \in 1..Len(generate_strategies) : stage_strategies(i)
    ELSE FALSE

NextValidUser == ValidUser \/ Tick

\* the application driven by that user, who never stops while a form is open
SpecValidUser == Init /\ [][NextValidUser]_vars /\ WF_vars(ValidUser)

\* the cases with which stage_pp_invitation is entered: a case of step 1 whose
\* step-2 answers were saved
EntryCases ==
    {[ConflictData(1, strip(IN_Chores), strip(IN_Bob), strip(IN_Peace), 0) EXCEPT
          !.user_facts = strip(f),
          !.user_motive_theory = strip(IN_Lazy),
          !.user_past_attempts = strip(IN_Talked),
          !.stage = "PP_INVITATION"] : f \in ValidUserFacts}

\* a new session, or a session at the entry of stage_pp_invitation
InitStages ==
    \/ Init
    \/ /\ conflict_data \in EntryCases
       /\ current_stage = "PP_INVITATION"
       /\ pp_simulation_mode = FALSE
       /\ strategy_selected = None
       /\ messages_generated = FALSE
       /\ show_manual_pp = FALSE
       /\ pp_simulation_choice = NoneChoice
       /\ pp_simulation_type = Absent
       /\ now = 0
       /\ uuid_issued = {1}
       /\ ran = "success: perspective saved"

NextStages == run \/ Tick

\* the stage handlers, each from the states run() dispatches it in
SpecStages == InitStages /\ [][NextStages]_vars

(***************************************************************************)
(* Properties.                                                             *)
(***************************************************************************)
StageIndex(s) == CHOOSE i \in 1..Len(ConflictStage) : ConflictStage[i] = s

\* the stage is s or a later one
AtOrAfter(s) == StageIndex(current_stage) >= StageIndex(s)

\* C1: with the cursor at USER_QUESTIONS and a case present, saving three
\* answers that are non-empty after trimming writes the trimmed answers into
\* the same case (same id, no uuid drawn) and moves the cursor to PP_INVITATION.
C1_SavePerspectiveAdvances ==
    [][(current_stage = "USER_QUESTIONS" /\ conflict_data # None) =>
        \A f \in ValidUserFacts, m \in ValidUserMotives,
           a \in ValidUserAttempts :
            stage_user_questions(f, m, a) =>
                /\ conflict_data' # None
                /\ conflict_data'.user_id = conflict_data.user_id
                /\ uuid_issued' = uuid_issued
                /\ conflict_data'.user_facts = strip(f)
                /\ conflict_data'.user_motive_theory = strip(m)
                /\ conflict_data'.user_past_attempts = strip(a)
                /\ current_stage' = "PP_INVITATION"]_vars

\* C2: from a new session, a user who supplies valid input at every stage
\* reaches RESOLUTION.
C2_ValidUserReachesResolution == <>(current_stage = "RESOLUTION")

\* C3: a submission of step 1 whose three fields are non-empty after trimming
\* and whose problem passes the content screen creates a case holding the
\* trimmed values, with an id no earlier case had, and moves the cursor to
\* USER_QUESTIONS.
C3_IdentificationCreatesCase ==
    [][current_stage = "IDENTIFICATION" =>
        \A p \in ValidProblems, n \in ValidParties,
           o \in ValidOutcomes :
            stage_identification(p, n, o) =>
                /\ conflict_data' # None
                /\ conflict_data'.problem_description = strip(p)
                /\ conflict_data'.problematic_party = strip(n)
                /\ conflict_data'.desired_outcome = strip(o)
                /\ conflict_data'.user_id \notin uuid_issued
                /\ conflict_data'.user_id \in uuid_issued'
                /\ current_stage' = "USER_QUESTIONS"]_vars

\* a second case was created after a reset, and its id differs from the first's
C3_Witness ==
    /\ ran = "success: problem analyzed"
    /\ current_stage = "USER_QUESTIONS"
    /\ conflict_data # None
    /\ conflict_data.user_id = 2
    /\ uuid_issued = {1, 2}

\* the edges of the linear chain
LegalEdges ==
    {<<"IDENTIFICATION", "USER_QUESTIONS">>, <<"USER_QUESTIONS", "PP_INVITATION">>,
     <<"PP_INVITATION", "SUMMARY">>, <<"SUMMARY", "STRATEGIES">>,
     <<"STRATEGIES", "RESOLUTION">>}

\* C4: in every step the cursor stays, moves along one edge of the chain, or is
\* sent to IDENTIFICATION by the reset.
C4_LegalTransitionsOnly ==
    [][\/ current_stage' = current_stage
       \/ <<current_stage, current_stage'>> \in LegalEdges
       \/ (current_stage' = "IDENTIFICATION" /\ reset_session)]_vars

\* the whole chain was walked and the reset edge taken
C4_Witness ==
    /\ ran = "reset"
    /\ current_stage = "IDENTIFICATION"
    /\ pp_simulation_type = "AUTO_GENERATE"

\* C5: the case is None exactly when the cursor is IDENTIFICATION; it appears
\* only in a successful step 1, disappears only in a reset, and keeps its id
\* while it is live.
C5_CaseLifecycle ==
    /\ []((conflict_data = None) <=> (current_stage = "IDENTIFICATION"))
    /\ [][/\ (conflict_data = None /\ conflict_data' # None) =>
                 (current_stage = "IDENTIFICATION"
                    /\ ran' = "success: problem analyzed")
          /\ (conflict_data # None /\ conflict_data' = None) => reset_session
          /\ (conflict_data # None /\ conflict_data' # None) =>
                 conflict_data'.user_id = conflict_data.user_id]_vars

\* a case was removed by the reset
C5_Witness ==
    /\ ran = "reset"
    /\ conflict_data = None
    /\ uuid_issued # {}

\* C6: from PP_INVITATION on the three user answers are non-empty; from SUMMARY
\* on the PP's facts, motive, attempts and ideal fix are non-empty, the
\* frustration level is in 1..10 and the response source is auto or manual.
C6_FieldsCommitted ==
    /\ AtOrAfter("PP_INVITATION") =>
           /\ conflict_data # None
           /\ Truthy(conflict_data.user_facts)
           /\ Truthy(conflict_data.user_motive_theory)
           /\ Truthy(conflict_data.user_past_attempts)
    /\ AtOrAfter("SUMMARY") =>
           /\ Truthy(conflict_data.pp_facts)
           /\ Truthy(conflict_data.pp_motive_theory)
           /\ Truthy(conflict_data.pp_past_attempts)
           /\ Truthy(conflict_data.pp_ideal_fix)
           /\ conflict_data.pp_frustration_level \in 1..10
           /\ pp_simulation_choice \in {"auto", "manual"}

\* the summary was passed with manually entered answers: the slider at its
\* maximum and the optional impact left empty
C6_Witness ==
    /\ current_stage = "STRATEGIES"
    /\ pp_simulation_choice = "manual"
    /\ conflict_data.pp_frustration_level = 10
    /\ conflict_data.pp_impact = << >>

\* C7: with the cursor at PP_INVITATION, the auto-generate button fills the
\* PP's facts, motive, attempts, ideal fix, misunderstandings and impact with
\* non-empty texts, sets frustration and compromise, records the source auto
\* and moves the cursor to SUMMARY.
C7_AutoGenerateFillsAndAdvances ==
    [][(current_stage = "PP_INVITATION" /\ auto_generate_btn) =>
        /\ Truthy(conflict_data'.pp_facts)
        /\ Truthy(conflict_data'.pp_motive_theory)
        /\ Truthy(conflict_data'.pp_past_attempts)
        /\ Truthy(conflict_data'.pp_ideal_fix)
        /\ Truthy(conflict_data'.pp_misunderstandings)
        /\ Truthy(conflict_data'.pp_impact)
        /\ conflict_data'.pp_frustration_level \in RandFrustration
        /\ pp_simulation_choice' = "auto"
        /\ current_stage' = "SUMMARY"]_vars

\* C8: the auto-generate button never stops part-way: no state has the source
\* auto while the cursor is still PP_INVITATION and the PP fields are empty.
C8_AutoGenerateTotal ==
    ~(/\ pp_simulation_choice = "auto"
      /\ current_stage = "PP_INVITATION"
      /\ conflict_data.pp_facts = << >>
      /\ conflict_data.pp_ideal_fix = << >>)

\* C9: with the cursor at PP_INVITATION, the manual button records the source
\* manual, sets show_manual_pp, and leaves the cursor and the case as they
\* were; the manual form (its Save and Clear All) is offered exactly when
\* show_manual_pp holds and the source is manual.
C9_ManualChoice ==
    /\ [][(current_stage = "PP_INVITATION" /\ manual_input_btn) =>
            /\ pp_simulation_choice' = "manual"
            /\ show_manual_pp'
            /\ current_stage' = "PP_INVITATION"
            /\ conflict_data' = conflict_data
            /\ ManualFormRendered']_vars
    /\ [](current_stage = "PP_INVITATION" =>
            ((ENABLED ClearAll) <=> (show_manual_pp /\ pp_simulation_choice = "manual")))

\* the manual button was pressed and the form is open
C9_Witness ==
    /\ ran = "manual chosen"
    /\ current_stage = "PP_INVITATION"
    /\ show_manual_pp
    /\ pp_simulation_choice = "manual"

\* what a valid Save PP Responses writes to the case
ManualFieldsWritten(f, m, a, s, x, u, e, c) ==
    /\ conflict_data' =
           [conflict_data EXCEPT
               !.pp_facts = strip(f),
               !.pp_motive_theory = strip(m),
               !.pp_past_attempts = strip(a),
               !.pp_frustration_level = s,
               !.pp_ideal_fix = strip(x),
               !.pp_misunderstandings = strip(u),
               !.pp_impact = strip(e),
               !.pp_compromise = c]
    /\ pp_simulation_choice' = "manual"
    /\ current_stage' = "SUMMARY"

\* C10 as stated: a valid Save PP Responses writes the eight PP fields, sets
\* show_manual_pp to false, keeps the source manual and moves the cursor to
\* SUMMARY.
C10_ManualSaveClearsFlag ==
    [][(current_stage = "PP_INVITATION" /\ ManualFormRendered) =>
        \A f \in ValidPPFacts, m \in ValidPPMotives,
           a \in ValidPPAttempts, s \in SliderInputs,
           x \in ValidPPFixes, u \in PPMisInputs, e \in PPImpactInputs,
           c \in BOOLEAN :
            save_pp_responses(f, m, a, s, x, u, e, c) =>
                (ManualFieldsWritten(f, m, a, s, x, u, e, c) /\ ~show_manual_pp')]_vars

\* C10 amended: a valid Save PP Responses writes the eight PP fields (texts
\* trimmed), keeps the source manual, moves the cursor to SUMMARY and leaves
\* show_manual_pp true.
C10_ManualSaveKeepsFlag ==
    [][(current_stage = "PP_INVITATION" /\ ManualFormRendered) =>
        \A f \in ValidPPFacts, m \in ValidPPMotives,
           a \in ValidPPAttempts, s \in SliderInputs,
           x \in ValidPPFixes, u \in PPMisInputs, e \in PPImpactInputs,
           c \in BOOLEAN :
            save_pp_responses(f, m, a, s, x, u, e, c) =>
                (ManualFieldsWritten(f, m, a, s, x, u, e, c) /\ show_manual_pp')]_vars

\* the manual answers were saved and the flag is still set at SUMMARY
C10_Witness ==
    /\ ran = "success: pp responses saved"
    /\ current_stage = "SUMMARY"
    /\ conflict_data.pp_ideal_fix = strip(IN_PPFix)
    /\ show_manual_pp

\* C11: reset_session, applied in any reachable state, yields cursor
\* IDENTIFICATION, no case, no selected strategy, no response source and
\* show_manual_pp false; applied to a state it produced it changes nothing.
C11_ResetEffectAndIdempotence ==
    /\ ~ENABLED (/\ reset_session
                 /\ ~(/\ current_stage' = "IDENTIFICATION"
                      /\ conflict_data' = None
                      /\ strategy_selected' = None
                      /\ pp_simulation_choice' = NoneChoice
                      /\ show_manual_pp' = FALSE))
    /\ ran = "reset" => ENABLED (reset_session /\ UNCHANGED vars)

\* the reset ran on a session that had a case, a strategy and the manual form
C11_Witness ==
    /\ ran = "reset"
    /\ strategy_selected = None
    /\ pp_simulation_choice = NoneChoice
    /\ ~show_manual_pp
    /\ pp_simulation_type = "MANUAL_INPUT"

\* C12: in every reachable state the user has an enabled operation that
\* returns the session to cursor IDENTIFICATION with no case (the reset is
\* offered at every stage), so no state is a trap.
C12_ResetAvailable ==
    \/ (current_stage = "IDENTIFICATION" /\ conflict_data = None)
    \/ ENABLED (run /\ current_stage' = "IDENTIFICATION" /\ conflict_data' = None)

\* the archetype tags in the order of the claim: 1 Collaborative, 2 Assertive,
\* 3 Exit
ArchetypeOf ==
    <<"Collaborative (Win-Win)", "Assertive (User-Favored)", "Exit (Clean Break)">>

\* selecting index i stores the i-th template and moves to RESOLUTION, and
\* does nothing else to the cursor or the selection
SelectsTemplate(i) ==
    /\ ENABLED (/\ stage_strategies(i)
                /\ strategy_selected' = generate_strategies[i]
                /\ strategy_selected'.archetype = ArchetypeOf[i]
                /\ current_stage' = "RESOLUTION")
    /\ ~ENABLED (/\ stage_strategies(i)
                 /\ ~(/\ strategy_selected' = generate_strategies[i]
                      /\ current_stage' = "RESOLUTION"))

\* C13 as stated: at STRATEGIES, index 1, 2 or 3 stores that template and
\* moves to RESOLUTION, and an index outside 1..3 can be submitted and is
\* answered with a range error that leaves cursor and selection unchanged.
C13_SelectStrategyWithRangeError ==
    current_stage = "STRATEGIES" =>
        /\ \A i \in 1..3 : SelectsTemplate(i)
        /\ ENABLED (/\ run
                    /\ ran' = "error: strategy index out of range"
                    /\ UNCHANGED <<current_stage, strategy_selected>>)

\* C13 amended: at STRATEGIES, index 1, 2 or 3 stores that template and moves
\* to RESOLUTION; the stage offers these three selections only, so every step
\* it takes stores one of the three templates and none reports a range error.
C13_SelectStrategyThreeButtons ==
    current_stage = "STRATEGIES" =>
        /\ \A i \in 1..3 : SelectsTemplate(i)
        /\ ~ENABLED (/\ run
                     /\ \/ strategy_selected' \notin
                               {collaborative, assertive, exit_strategy}
                        \/ current_stage' # "RESOLUTION"
                        \/ ran' # "strategy selected")

\* the second strategy was selected
C13_Witness ==
    /\ ran = "strategy selected"
    /\ current_stage = "RESOLUTION"
    /\ strategy_selected = assertive
    /\ strategy_selected.archetype = "Assertive (User-Favored)"

\* C14: strategy_selected is None while the cursor is before RESOLUTION and one
\* of the three templates while it is RESOLUTION; once set it changes only when
\* the reset clears it.
C14_StrategyLifecycle ==
    /\ [](IF current_stage = "RESOLUTION"
          THEN strategy_selected \in {collaborative, assertive, exit_strategy}
          ELSE strategy_selected = None)
    /\ [][(strategy_selected # None /\ strategy_selected' # strategy_selected) =>
              (reset_session /\ strategy_selected' = None)]_vars

\* the third strategy is selected and a template was sent
C14_Witness ==
    /\ current_stage = "RESOLUTION"
    /\ strategy_selected = exit_strategy
    /\ messages_generated

\* C15: a submission of step 1 with the problem, the party or the outcome empty
\* after trimming reports the fill-in-all-fields error, creates no case and
\* leaves the cursor at IDENTIFICATION and every session key unchanged.
C15_IdentificationValidationFailure ==
    [][current_stage = "IDENTIFICATION" =>
        \A p \in ProblemInputs, n \in PartyInputs, o \in OutcomeInputs :
            (/\ (strip(p) = << >> \/ strip(n) = << >> \/ strip(o) = << >>)
             /\ stage_identification(p, n, o)) =>
                /\ ran' = "error: fill in all fields"
                /\ conflict_data' = None
                /\ current_stage' = "IDENTIFICATION"
                /\ uuid_issued' = uuid_issued
                /\ session_state' = session_state]_vars

\* a submission with an empty field was refused
C15_Witness ==
    /\ ran = "error: fill in all fields"
    /\ current_stage = "IDENTIFICATION"
    /\ conflict_data = None

\* some text of the sequence is empty after trimming
SomeBlank(texts) == \E i \in 1..Len(texts) : strip(texts[i]) = << >>

\* C16: a step-2 submission with an answer empty after trimming, and a manual
\* save with facts, motive, attempts or ideal fix empty after trimming, report
\* an error and leave every session key (cursor, case, source, show_manual_pp)
\* unchanged; a manual save whose four required answers are present is
\* accepted whatever the misunderstandings and impact answers are.
C16_ValidationFailuresChangeNothing ==
    [][/\ current_stage = "USER_QUESTIONS" =>
            \A f \in UserFactsInputs, m \in UserMotiveInputs,
               a \in UserAttemptInputs :
                (SomeBlank(<<f, m, a>>) /\ stage_user_questions(f, m, a)) =>
                    /\ ran' = "error: answer all questions"
                    /\ session_state' = session_state
       /\ (current_stage = "PP_INVITATION" /\ ManualFormRendered) =>
            \A f \in PPFactsInputs, m \in PPMotiveInputs, a \in PPAttemptInputs,
               s \in SliderInputs, x \in PPFixInputs, u \in PPMisInputs,
               e \in PPImpactInputs, c \in BOOLEAN :
                save_pp_responses(f, m, a, s, x, u, e, c) =>
                    IF SomeBlank(<<f, m, a, x>>)
                    THEN /\ ran' = "error: complete core questions"
                         /\ session_state' = session_state
                    ELSE ran' = "success: pp responses saved"]_vars

\* the manual form refused a save and nothing moved
C16_Witness ==
    /\ ran = "error: complete core questions"
    /\ current_stage = "PP_INVITATION"
    /\ show_manual_pp
    /\ pp_simulation_choice = "manual"
    /\ conflict_data.pp_facts = << >>

\* the text holds, in any letter case, one of the ten words of lines 255-258
MentionsForbidden(text) ==
    \E w \in {KW_violence, KW_assault, KW_theft, KW_fraud, KW_harassment,
              KW_abuse, KW_threat, KW_danger, KW_weapon, KW_drugs} :
        \E i \in 1..Len(text) :
            /\ i + Len(w) - 1 <= Len(text)
            /\ \A j \in 1..Len(w) : LowerChar(text[i + j - 1]) = w[j]

\* C17: a submission of step 1 with three non-empty fields is refused by the
\* content screen exactly when the problem text holds a forbidden word in any
\* letter case; the name and the desired outcome are not screened; a refusal
\* creates no case and leaves the cursor and every session key unchanged.
C17_ContentScreenPolicy ==
    [][current_stage = "IDENTIFICATION" =>
        \A p \in ProblemInputs, n \in PartyInputs, o \in OutcomeInputs :
            (/\ ~SomeBlank(<<p, n, o>>)
             /\ stage_identification(p, n, o)) =>
                IF MentionsForbidden(p)
                THEN /\ ran' = "error: illegal activity"
                     /\ conflict_data' = None
                     /\ uuid_issued' = uuid_issued
                     /\ session_state' = session_state
                ELSE /\ ran' = "success: problem analyzed"
                     /\ conflict_data' # None
                     /\ conflict_data'.problematic_party = strip(n)
                     /\ conflict_data'.desired_outcome = strip(o)]_vars

\* the screen refused a submission and the session is as it was
C17_Witness ==
    /\ ran = "error: illegal activity"
    /\ current_stage = "IDENTIFICATION"
    /\ conflict_data = None
    /\ uuid_issued = {}

\* C18 as stated: "I want to hurt him", "Bob", "peace" is refused by the
\* content screen, creates no case and leaves the cursor at step 1.
C18_HurtRejected ==
    current_stage = "IDENTIFICATION" =>
        ~ENABLED (/\ stage_identification(IN_Hurt, IN_Bob, IN_Peace)
                  /\ ~(/\ ran' = "error: illegal activity"
                       /\ conflict_data' = None
                       /\ current_stage' = "IDENTIFICATION"))

\* C18 amended: "hurt" is not one of the ten words, so the submission
\* "I want to hurt him", "Bob", "peace" is accepted: a case holding the three
\* texts is created and the cursor moves to step 2.
C18_HurtAccepted ==
    /\ ~MentionsForbidden(IN_Hurt)
    /\ current_stage = "IDENTIFICATION" =>
        /\ ENABLED stage_identification(IN_Hurt, IN_Bob, IN_Peace)
        /\ ~ENABLED (/\ stage_identification(IN_Hurt, IN_Bob, IN_Peace)
                     /\ ~(/\ ran' = "success: problem analyzed"
                          /\ conflict_data' # None
                          /\ conflict_data'.problem_description = IN_Hurt
                          /\ conflict_data'.problematic_party = IN_Bob
                          /\ conflict_data'.desired_outcome = IN_Peace
                          /\ current_stage' = "USER_QUESTIONS"))

\* the case created from "I want to hurt him"
C18_Witness ==
    /\ ran = "success: problem analyzed"
    /\ current_stage = "USER_QUESTIONS"
    /\ conflict_data # None
    /\ conflict_data.problem_description = IN_Hurt
    /\ conflict_data.problematic_party = IN_Bob
    /\ conflict_data.desired_outcome = IN_Peace

\* the handler refused the call and left cursor, case and strategy alone
RejectedIllegalState ==
    /\ ran' = "error: illegal state"
    /\ UNCHANGED <<current_stage, conflict_data, strategy_selected>>

\* C19 as stated: a stage handler called while the cursor is at another stage
\* reports an illegal-state error and leaves cursor, case and selected
\* strategy unchanged: a strategy button handler with the cursor at SUMMARY,
\* the manual-input handler with the cursor at IDENTIFICATION and no case,
\* and the summary handler with the cursor anywhere but SUMMARY.
C19_OutOfOrderRejected ==
    /\ current_stage = "SUMMARY" =>
        \A i \in 1..Len(generate_strategies) :
            ~ENABLED (stage_strategies(i) /\ ~RejectedIllegalState)
    /\ (current_stage = "IDENTIFICATION" /\ conflict_data = None) =>
        ~ENABLED (manual_input_btn /\ ~RejectedIllegalState)
    /\ current_stage # "SUMMARY" =>
        ~ENABLED (stage_summary /\ ~RejectedIllegalState)

\* every session key but the cursor
AllButCursor ==
    <<conflict_data, pp_simulation_mode, strategy_selected, messages_generated,
      show_manual_pp, pp_simulation_choice, pp_simulation_type>>

\* C20: with the cursor at SUMMARY the summary is computed without failure
\* (agreement rate in 0..100, user intensity in 5..10, a common-ground text),
\* the "Generate Resolution Strategies" button is always available, and
\* pressing it moves the cursor to STRATEGIES and changes no other session
\* key: not the case, not the response source, not show_manual_pp, not the
\* selected strategy.
C20_AdvanceToStrategiesPure ==
    current_stage = "SUMMARY" =>
        /\ LET shown == summary_data(conflict_data)
           IN  /\ shown.agreement_rate \in 0..100
               /\ shown.user_intensity \in 5..10
               /\ shown.emotional_gap \in 0..10
               /\ shown.common_ground # {}
        /\ ENABLED GenerateStrategies
        /\ ~ENABLED (/\ run
                     /\ ~(/\ current_stage' = "STRATEGIES"
                          /\ UNCHANGED AllButCursor))

\* the button was pressed on a summary of answers that share four words
C20_Witness ==
    /\ ran = "to strategies"
    /\ current_stage = "STRATEGIES"
    /\ strategy_selected = None
    /\ conflict_data # None
    /\ calculate_agreement_rate(conflict_data) = 57
    /\ Cardinality(find_common_facts(conflict_data)) = 24

\* C21 as stated: in every state with a case, pp_frustration_level is an
\* integer in 1..10 (a new case included).
C21_FrustrationInRange ==
    conflict_data # None => conflict_data.pp_frustration_level \in 1..10

\* C21 amended: pp_frustration_level is in 0..10; 0 stands for "not answered":
\* a new case and Clear All store 0, the generated fill stores a value in
\* 4..8, and once the cursor is at SUMMARY or later the value is in 1..10.
C21_FrustrationZeroUntilAnswered ==
    conflict_data # None =>
        /\ conflict_data.pp_frustration_level \in 0..10
        /\ ran \in {"success: problem analyzed", "cleared"} =>
               conflict_data.pp_frustration_level = 0
        /\ ran = "success: generated" =>
               conflict_data.pp_frustration_level \in 4..8
        /\ AtOrAfter("SUMMARY") =>
               conflict_data.pp_frustration_level \in 1..10

\* Clear All has just stored 0 in a case
C21_Witness ==
    /\ ran = "cleared"
    /\ current_stage = "PP_INVITATION"
    /\ conflict_data # None
    /\ conflict_data.pp_frustration_level = 0

\* C22: every step that changes a field of the case in the session sets its
\* updated_at to the time of the step; created_at is set when the case is
\* created and never changes; created_at <= updated_at.
C22_TimestampsRefreshed ==
    [][(conflict_data # None /\ conflict_data' # None) =>
        /\ conflict_data' # conflict_data => conflict_data'.updated_at = now'
        /\ conflict_data'.created_at = conflict_data.created_at
        /\ conflict_data'.created_at <= conflict_data'.updated_at]_vars

(***************************************************************************)
(* calculate_agreement_rate applied to cases whose two fact answers are    *)
(* drawn from bounded sets: a session in which stage_summary renders such  *)
(* a case.                                                                 *)
(***************************************************************************)
\* "T1 t2 t3 t4 t5 t6 t7 t8 t9 t10 t11 t12 t13 t14 t15 t16 t17 t18 t19 t20 t21 t22 t23 t24 t25 t26 t27 t28 t29 t30 t31 t32 t33 t34 t35 t36 t37 t38 t39 t40 t41 t42 t43 t44 t45 t46 t47 t48 t49 t50"
IN_FactsFifty ==
    <<"T","1"," ","t","2"," ","t","3"," ","t","4"," ","t","5"," ","t","6"," ","t","7"," ",
    "t","8"," ","t","9"," ","t","1","0"," ","t","1","1"," ","t","1","2"," ","t","1","3"," ",
    "t","1","4"," ","t","1","5"," ","t","1","6"," ","t","1","7"," ","t","1","8"," ","t","1",
    "9"," ","t","2","0"," ","t","2","1"," ","t","2","2"," ","t","2","3"," ","t","2","4"," ",
    "t","2","5"," ","t","2","6"," ","t","2","7"," ","t","2","8"," ","t","2","9"," ","t","3",
    "0"," ","t","3","1"," ","t","3","2"," ","t","3","3"," ","t","3","4"," ","t","3","5"," ",
    "t","3","6"," ","t","3","7"," ","t","3","8"," ","t","3","9"," ","t","4","0"," ","t","4",
    "1"," ","t","4","2"," ","t","4","3"," ","t","4","4"," ","t","4","5"," ","t","4","6"," ",
    "t","4","7"," ","t","4","8"," ","t","4","9"," ","t","5","0">>

\* "t1 t2 t3 t4 t5 t6 t7 t8 t9 t10 t11 t12 t13 t14 t15 t16 t17 t18 t19 t20 t21 t22 t23 t24 t25 t26 t27 t28 t29"
IN_PPFactsTwentyNine ==
    <<"t","1"," ","t","2"," ","t","3"," ","t","4"," ","t","5"," ","t","6"," ","t","7"," ",
    "t","8"," ","t","9"," ","t","1","0"," ","t","1","1"," ","t","1","2"," ","t","1","3"," ",
    "t","1","4"," ","t","1","5"," ","t","1","6"," ","t","1","7"," ","t","1","8"," ","t","1",
    "9"," ","t","2","0"," ","t","2","1"," ","t","2","2"," ","t","2","3"," ","t","2","4"," ",
    "t","2","5"," ","t","2","6"," ","t","2","7"," ","t","2","8"," ","t","2","9">>

RateUserFacts == {IN_Empty, strip(IN_FactsOne), strip(IN_FactsSeven), IN_FactsFifty}
RatePPFacts   == {IN_Empty, strip(IN_FactsSeven), IN_PPFacts, IN_FactsFifty,
                  IN_PPFactsTwentyNine}

RateCases ==
    {[ConflictData(1, strip(IN_Chores), strip(IN_Bob), strip(IN_Peace), 0) EXCEPT
          !.user_facts = u,
          !.user_motive_theory = strip(IN_Lazy),
          !.user_past_attempts = strip(IN_Talked),
          !.pp_facts = p,
          !.pp_motive_theory = strip(IN_PPMotive),
          !.pp_past_attempts = strip(IN_PPAttempts),
          !.pp_frustration_level = 5,
          !.pp_ideal_fix = strip(IN_PPFix),
          !.stage = "PP_INVITATION"] : u \in RateUserFacts, p \in RatePPFacts}

InitRate ==
    /\ conflict_data \in RateCases
    /\ current_stage = "SUMMARY"
    /\ pp_simulation_mode = FALSE
    /\ strategy_selected = None
    /\ messages_generated = FALSE
    /\ show_manual_pp = TRUE
    /\ pp_simulation_choice = "manual"
    /\ pp_simulation_type = "MANUAL_INPUT"
    /\ now = 0
    /\ uuid_issued = {1}
    /\ ran = "success: pp responses saved"

SpecRate == InitRate /\ [][Next]_vars

\* C23: for the case the summary shows, calculate_agreement_rate is the
\* integer part of 100 * |U \cap P| / |U| (U, P the sets of lower-case words of
\* user_facts and pp_facts), within 0..100; 0 when U is empty; 100 when the
\* two answers are the same non-empty text.
C23_AgreementRate ==
    current_stage = "SUMMARY" =>
        LET U == set(split(lower(conflict_data.user_facts)))
            P == set(split(lower(conflict_data.pp_facts)))
            rate == calculate_agreement_rate(conflict_data)
        IN  /\ rate \in 0..100
            /\ U = {} => rate = 0
            /\ U # {} => rate = (100 * Cardinality(U \cap P)) \div Cardinality(U)
            /\ (U # {} /\ conflict_data.user_facts = conflict_data.pp_facts) =>
                   rate = 100

\* C24: with the cursor at RESOLUTION the three messages (Soft, Firm, Direct)
\* are generated for the selected strategy; sending template 1, 2 or 3 sets
\* messages_generated and leaves the cursor, the case, the selected strategy
\* and every other session key unchanged; the only step that leaves
\* RESOLUTION is the reset.
C24_ResolutionFrame ==
    current_stage = "RESOLUTION" =>
        /\ LET messages == generate_message_templates(strategy_selected, conflict_data)
           IN  <<messages[1].tone, messages[2].tone, messages[3].tone>>
                   = <<"Soft", "Firm", "Direct">>
        /\ \A i \in 1..3 : ENABLED (run /\ send_message(i))
        /\ ~ENABLED (/\ run
                     /\ ran' = "success: template sent"
                     /\ ~(/\ messages_generated' = TRUE
                          /\ UNCHANGED <<current_stage, conflict_data,
                                         strategy_selected, pp_simulation_mode,
                                         show_manual_pp, pp_simulation_choice,
                                         pp_simulation_type>>))
        /\ ~ENABLED (/\ run
                     /\ ran' \notin {"success: template sent", "reset"})
        /\ ~ENABLED (/\ run
                     /\ current_stage' # "RESOLUTION"
                     /\ ~(/\ ran' = "reset"
                          /\ current_stage' = "IDENTIFICATION"
                          /\ conflict_data' = None
                          /\ strategy_selected' = None))

\* a template was sent and the session is still at RESOLUTION
C24_Witness ==
    /\ ran = "success: template sent"
    /\ current_stage = "RESOLUTION"
    /\ messages_generated
    /\ strategy_selected = collaborative
    /\ conflict_data # None

\* the eight answers of the other party held by a case
PPFields(conflict) ==
    <<conflict.pp_facts, conflict.pp_motive_theory, conflict.pp_past_attempts,
      conflict.pp_frustration_level, conflict.pp_ideal_fix,
      conflict.pp_misunderstandings, conflict.pp_impact, conflict.pp_compromise>>

\* C25: every step that writes answers of the other party leaves
\* pp_simulation_choice naming it ("auto" for the generated fill, "manual" for
\* the manual save and Clear All), whatever was chosen before; and in every
\* state with the cursor at SUMMARY or later the choice is "auto" exactly when
\* the answers are generated ones and "manual" exactly when they are typed
\* ones.
C25_ResponseSourceConsistent ==
    /\ [][(conflict_data # None /\ conflict_data' # None
             /\ PPFields(conflict_data') # PPFields(conflict_data)) =>
            \/ ran' = "success: generated" /\ pp_simulation_choice' = "auto"
            \/ /\ ran' \in {"success: pp responses saved", "cleared"}
               /\ pp_simulation_choice' = "manual"]_vars
    /\ []((conflict_data # None /\ AtOrAfter("SUMMARY")) =>
            /\ pp_simulation_choice \in {"auto", "manual"}
            /\ pp_simulation_choice = "auto" <=>
                   conflict_data.pp_ideal_fix = IDEAL_FIX
            /\ pp_simulation_choice = "manual" <=>
                   conflict_data.pp_ideal_fix \in {strip(x) : x \in ValidPPFixes})

\* manual was chosen first, then the answers were generated
C25_Witness ==
    /\ current_stage = "SUMMARY"
    /\ show_manual_pp
    /\ pp_simulation_choice = "auto"
    /\ conflict_data.pp_ideal_fix = IDEAL_FIX
    /\ conflict_data.pp_frustration_level \in 4..8

\* C26: right after reset_session every session key that a stage writes
\* (the case, the cursor, pp_simulation_mode, the strategy, messages_generated,
\* show_manual_pp, pp_simulation_choice, pp_simulation_type) has the value it
\* has in a newly initialised session.
C26_ResetRestoresFreshSession ==
    ran = "reset" => initialize_session_state

\* the fields of a case that are not answers of the other party
OtherFields(conflict) ==
    <<conflict.user_id, conflict.problem_description, conflict.problematic_party,
      conflict.desired_outcome, conflict.user_facts, conflict.user_motive_theory,
      conflict.user_past_attempts, conflict.pp_simulation_type, conflict.stage,
      conflict.created_at, conflict.updated_at>>

\* C27: wherever the manual form is shown, Clear All can be pressed and it
\* sets the eight answers of the other party to empty text, 0 and false and
\* changes nothing else: the cursor stays at PP_INVITATION, the choice stays
\* "manual", show_manual_pp stays true, and the id, the problem, the name, the
\* desired outcome and the three answers of the user are untouched.
C27_ClearAllFrame ==
    (current_stage = "PP_INVITATION" /\ ManualFormRendered) =>
        /\ ENABLED ClearAll
        /\ ~ENABLED (/\ ClearAll
                     /\ ~(/\ PPFields(conflict_data') =
                                 <<<< >>, << >>, << >>, 0, << >>, << >>, << >>, FALSE>>
                          /\ OtherFields(conflict_data') = OtherFields(conflict_data)
                          /\ current_stage' = "PP_INVITATION"
                          /\ pp_simulation_choice' = "manual"
                          /\ show_manual_pp' = TRUE
                          /\ UNCHANGED <<strategy_selected, messages_generated,
                                         pp_simulation_mode, pp_simulation_type>>))

\* Clear All was pressed in the manual form
C27_Witness ==
    /\ ran = "cleared"
    /\ current_stage = "PP_INVITATION"
    /\ show_manual_pp
    /\ pp_simulation_choice = "manual"
    /\ PPFields(conflict_data) = <<<< >>, << >>, << >>, 0, << >>, << >>, << >>, FALSE>>
    /\ conflict_data.user_facts # << >>

\* C28: in every state with a case, the stage stored in the case is the
\* cursor.
C28_CaseStageIsCursor ==
    conflict_data # None => conflict_data.stage = current_stage

\* the stages for which run() has a branch (lines 957-968)
DispatchedStages ==
    {"IDENTIFICATION", "USER_QUESTIONS", "PP_INVITATION", "SUMMARY",
     "STRATEGIES", "RESOLUTION"}

\* C29: the cursor is never PP_RESPONSES: it is always one of the six stages
\* for which run() has a branch, and the handler of that stage accepts an
\* event.
C29_NeverPPResponses ==
    /\ current_stage # "PP_RESPONSES"
    /\ current_stage \in DispatchedStages
    /\ DispatchedStages = {ConflictStage[i] : i \in 1..Len(ConflictStage)}
                              \ {"PP_RESPONSES"}
    /\ ENABLED Dispatch

\* the manual answers were taken inside PP_INVITATION and the cursor went
\* from there to SUMMARY
C29_Witness ==
    /\ ran = "success: pp responses saved"
    /\ current_stage = "SUMMARY"
    /\ pp_simulation_type = "MANUAL_INPUT"
    /\ conflict_data.stage = "PP_INVITATION"

====
